---------------------------- MODULE Spec2Model ----------------------------
(***************************************************************************)
(* A model of the cursor-based doubly linked list of src/src/lib.rs.       *)
(*                                                                         *)
(* The heap is a function from the addresses of the live (allocated and    *)
(* not yet deallocated) nodes to their contents.  Box::new / into_raw add  *)
(* an address that is not live (any one: the allocator may hand back an    *)
(* address that was freed before), Box::from_raw followed by the drop of   *)
(* the box removes it.  The list is the triple (len, head, tail), the      *)
(* cursor is its field `node`, the iterator its field `next`.              *)
(***************************************************************************)
EXTENDS Integers, Sequences, FiniteSets, TLC

\* ------------------------------------------------------------------ bounds
MaxNodes == 3
MaxValue == 3
MaxInserts == 4

\* ------------------------------------------------------------- the domain
\* Option::None of a link (Option<*mut Node<T>>) and of a returned value.
NoNode == 0
NoValue == 0

Addr == 1..MaxNodes
Values == 1..MaxValue

VARIABLES
    heap,      \* live address -> [value, next, prev]          (struct Node)
    len,       \* LinkedList.len
    head,      \* LinkedList.head
    tail,      \* LinkedList.tail
    node,      \* Cursor.node, NoNode when no cursor is alive
    iterNext,  \* Iter.next, NoNode when no iterator is alive
    mode,      \* which handle borrows the list, or the position in drop()
    ret,       \* the value returned by the last call, NoValue for None / ()
    inserted,  \* number of insert_after / insert_before calls made
    taken      \* number of take() calls that returned Some

vars == <<heap, len, head, tail, node, iterNext, mode, ret, inserted, taken>>

list == <<heap, len, head, tail>>

\* ------------------------------------------------------------------ Node
NodeNew(v) == [value |-> v, next |-> NoNode, prev |-> NoNode]

LinkNextSkip(h, n, nx) == h

LinkNext(h, n, nx) == [h EXCEPT ![n].next = nx]

LinkPrevSkip(h, n, pv) == h

LinkPrev(h, n, pv) == [h EXCEPT ![n].prev = pv]

LinkNodes(h, n, nx, pv) == LinkPrev(LinkNext(h, n, nx), n, pv)

\* Box::new + Box::into_raw: the node becomes live at address a.
Alloc(h, a, v) == [x \in DOMAIN h \cup {a} |-> IF x = a THEN NodeNew(v) ELSE h[x]]

\* Box::from_raw + the drop of the box: address a is live no more.
Dealloc(h, a) == [x \in DOMAIN h \ {a} |-> h[x]]

\* A raw pointer may be dereferenced only while its node is live.
Live(p) == p \in DOMAIN heap

LiveOrNone(p) == p = NoNode \/ Live(p)

\* ------------------------------------------------------------ LinkedList
Init ==
    /\ heap = <<>>
    /\ len = 0
    /\ head = NoNode
    /\ tail = NoNode
    /\ node = NoNode
    /\ iterNext = NoNode
    /\ mode = "idle"
    /\ ret = NoValue
    /\ inserted = 0
    /\ taken = 0

is_empty == head = NoNode

Borrowable == mode \in {"idle", "cursor", "iter"}

CursorFront ==
    /\ Borrowable
    /\ node' = head
    /\ mode' = "cursor"
    /\ iterNext' = NoNode
    /\ ret' = NoValue
    /\ UNCHANGED <<list, inserted, taken>>

CursorBack ==
    /\ Borrowable
    /\ node' = tail
    /\ mode' = "cursor"
    /\ iterNext' = NoNode
    /\ ret' = NoValue
    /\ UNCHANGED <<list, inserted, taken>>

IterNew ==
    /\ Borrowable
    /\ iterNext' = head
    /\ mode' = "iter"
    /\ node' = NoNode
    /\ ret' = NoValue
    /\ UNCHANGED <<list, inserted, taken>>

\* ---------------------------------------------------------------- Cursor
Peek(h, p) == IF p = NoNode THEN NoValue ELSE h[p].value

PeekMut ==
    /\ mode = "cursor"
    /\ LiveOrNone(node)
    /\ ret' = Peek(heap, node)
    /\ UNCHANGED <<list, node, iterNext, mode, inserted, taken>>

NextPosNoReentry(p) == IF p # NoNode THEN heap[p].next ELSE NoNode

NextPos(p) == IF p # NoNode THEN heap[p].next ELSE head

PrevPosNoReentry(p) == IF p # NoNode THEN heap[p].prev ELSE NoNode

PrevPos(p) == IF p # NoNode THEN heap[p].prev ELSE tail

NextRetStale(p) == IF p # NoNode THEN heap[p].value ELSE NoValue

NextRet(p) == IF p # NoNode THEN Peek(heap, heap[p].next) ELSE NoValue

PrevRet(p) == IF p # NoNode THEN Peek(heap, heap[p].prev) ELSE NoValue

CursorNext ==
    /\ mode = "cursor"
    /\ LiveOrNone(node)
    /\ node # NoNode => LiveOrNone(heap[node].next)
    /\ node' = NextPos(node)
    /\ ret' = NextRet(node)
    /\ UNCHANGED <<list, iterNext, mode, inserted, taken>>

CursorPrev ==
    /\ mode = "cursor"
    /\ LiveOrNone(node)
    /\ node # NoNode => LiveOrNone(heap[node].prev)
    /\ node' = PrevPos(node)
    /\ ret' = PrevRet(node)
    /\ UNCHANGED <<list, iterNext, mode, inserted, taken>>

RelocatePrevFirst(nx, pv) == IF pv # NoNode THEN pv ELSE nx

\* next.or(prev)
Relocate(nx, pv) == IF nx # NoNode THEN nx ELSE pv

TailAfterTakeStale(nx, pv) == tail

\* match next { Some(next) => (*next).prev = prev, None => self.list.tail = prev }
TailAfterTake(nx, pv) == IF nx # NoNode THEN tail ELSE pv

HeadAfterTakeStale(nx, pv) == head

\* match prev { Some(prev) => (*prev).next = next, None => self.list.head = next }
HeadAfterTake(nx, pv) == IF pv # NoNode THEN head ELSE nx

LenDecSkip(l) == l

LenDec(l) == l - 1

LenIncSkip(l) == l

LenInc(l) == l + 1

\* Cursor::take with the decrement of len placed before the early return.
TakeBodyEagerLen ==
    IF node = NoNode
    THEN /\ ret' = NoValue
         /\ len' = LenDec(len)
         /\ UNCHANGED <<heap, head, tail, node, taken>>
    ELSE LET nx == heap[node].next
             pv == heap[node].prev
             h1 == IF nx # NoNode THEN LinkPrev(heap, nx, pv) ELSE heap
             h2 == IF pv # NoNode THEN LinkNext(h1, pv, nx) ELSE h1
         IN  /\ LiveOrNone(nx)
             /\ LiveOrNone(pv)
             /\ node' = Relocate(nx, pv)
             /\ tail' = TailAfterTake(nx, pv)
             /\ head' = HeadAfterTake(nx, pv)
             /\ len' = LenDec(len)
             /\ ret' = heap[node].value
             /\ heap' = Dealloc(h2, node)
             /\ taken' = taken + 1

\* The body of Cursor::take, shared by the take() action and by drop().
TakeBody ==
    IF node = NoNode
    THEN /\ ret' = NoValue
         /\ UNCHANGED <<list, node, taken>>
    ELSE LET nx == heap[node].next
             pv == heap[node].prev
             h1 == IF nx # NoNode THEN LinkPrev(heap, nx, pv) ELSE heap
             h2 == IF pv # NoNode THEN LinkNext(h1, pv, nx) ELSE h1
         IN  /\ LiveOrNone(nx)
             /\ LiveOrNone(pv)
             /\ node' = Relocate(nx, pv)
             /\ tail' = TailAfterTake(nx, pv)
             /\ head' = HeadAfterTake(nx, pv)
             /\ len' = LenDec(len)
             /\ ret' = heap[node].value
             /\ heap' = Dealloc(h2, node)
             /\ taken' = taken + 1

Take ==
    /\ mode = "cursor"
    /\ LiveOrNone(node)
    /\ TakeBody
    /\ UNCHANGED <<iterNext, mode, inserted>>

InsertFirst(a, v) ==
    /\ heap' = Alloc(heap, a, v)
    /\ node' = a
    /\ head' = a
    /\ tail' = a
    /\ len' = LenInc(len)

InsertAfterAt(a, v) ==
    IF node = NoNode
    THEN InsertFirst(a, v)
    ELSE LET nx == heap[node].next
             h1 == LinkNodes(Alloc(heap, a, v), a, nx, node)
             h2 == LinkNext(h1, node, a)
             h3 == IF nx # NoNode THEN LinkPrev(h2, nx, a) ELSE h2
         IN  /\ LiveOrNone(nx)
             /\ heap' = h3
             /\ tail' = IF node = tail THEN a ELSE tail
             /\ len' = LenInc(len)
             /\ UNCHANGED <<node, head>>

InsertBeforeAt(a, v) ==
    IF node = NoNode
    THEN InsertFirst(a, v)
    ELSE LET pv == heap[node].prev
             h1 == LinkNodes(Alloc(heap, a, v), a, node, pv)
             h2 == LinkPrev(h1, node, a)
             h3 == IF pv # NoNode THEN LinkNext(h2, pv, a) ELSE h2
         IN  /\ LiveOrNone(pv)
             /\ heap' = h3
             /\ head' = IF node = head THEN a ELSE head
             /\ len' = LenInc(len)
             /\ UNCHANGED <<node, tail>>

InsertAfter(v) ==
    /\ mode = "cursor"
    /\ inserted < MaxInserts
    /\ LiveOrNone(node)
    /\ \E a \in Addr \ DOMAIN heap : InsertAfterAt(a, v)
    /\ ret' = NoValue
    /\ inserted' = inserted + 1
    /\ UNCHANGED <<iterNext, mode, taken>>

InsertBefore(v) ==
    /\ mode = "cursor"
    /\ inserted < MaxInserts
    /\ LiveOrNone(node)
    /\ \E a \in Addr \ DOMAIN heap : InsertBeforeAt(a, v)
    /\ ret' = NoValue
    /\ inserted' = inserted + 1
    /\ UNCHANGED <<iterNext, mode, taken>>

\* ------------------------------------------------------------------ Iter
IterNext ==
    /\ mode = "iter"
    /\ LiveOrNone(iterNext)
    /\ IF iterNext = NoNode
       THEN /\ ret' = NoValue
            /\ UNCHANGED iterNext
       ELSE /\ iterNext' = heap[iterNext].next
            /\ ret' = heap[iterNext].value
    /\ UNCHANGED <<list, node, mode, inserted, taken>>

\* ------------------------------------------------------------------ Drop
\* drop(): let mut cursor = self.cursor_front();
DropStart ==
    /\ Borrowable
    /\ node' = head
    /\ iterNext' = NoNode
    /\ mode' = "drop"
    /\ ret' = NoValue
    /\ UNCHANGED <<list, inserted, taken>>

\* drop(): one turn of  while cursor.take().is_some() {}
DropStep ==
    /\ mode = "drop"
    /\ LiveOrNone(node)
    /\ TakeBody
    /\ mode' = IF ret' # NoValue THEN "drop" ELSE "dropped"
    /\ UNCHANGED <<iterNext, inserted>>

\* ----------------------------------------------------------- the program
Next ==
    \/ CursorFront
    \/ CursorBack
    \/ IterNew
    \/ PeekMut
    \/ CursorNext
    \/ CursorPrev
    \/ Take
    \/ \E v \in Values : InsertAfter(v)
    \/ \E v \in Values : InsertBefore(v)
    \/ IterNext
    \/ DropStart
    \/ DropStep

Spec == Init /\ [][Next]_vars

\* ------------------------------------------------- what the list contains
\* The nodes met from p along the links of direction dir ("next" or "prev"),
\* stopping at None, at a node that is not live, or after fuel nodes.
RECURSIVE Walk(_, _, _)
Walk(p, dir, fuel) ==
    IF p = NoNode \/ p \notin DOMAIN heap \/ fuel = 0
    THEN <<>>
    ELSE <<p>> \o Walk(IF dir = "next" THEN heap[p].next ELSE heap[p].prev,
                       dir, fuel - 1)

Fwd == Walk(head, "next", MaxNodes + 1)

Bwd == Walk(tail, "prev", MaxNodes + 1)

Reverse(s) == [i \in 1..Len(s) |-> s[Len(s) + 1 - i]]

\* What iter() yields: the values from head along next.
IterSeq == [i \in 1..Len(Fwd) |-> heap[Fwd[i]].value]

\* The place of node x in sequence s, 0 when it is not there.
Idx(s, x) == IF \E i \in 1..Len(s) : s[i] = x
             THEN CHOOSE i \in 1..Len(s) : s[i] = x
             ELSE 0

\* s with v put at place i, and s without its element at place i.
InsertAt(s, i, v) == SubSeq(s, 1, i - 1) \o <<v>> \o SubSeq(s, i, Len(s))

RemoveAt(s, i) == SubSeq(s, 1, i - 1) \o SubSeq(s, i + 1, Len(s))

First(s) == IF s = <<>> THEN NoNode ELSE s[1]

Last(s) == IF s = <<>> THEN NoNode ELSE s[Len(s)]

Handles == mode \in {"idle", "cursor", "iter"}

\* ----------------------------------------------------------------- claims

\* C1: in every state reached by cursor operations, following next from head
\* visits exactly len nodes and ends at tail, and following prev from tail
\* visits the same nodes in reverse order and ends at head.
C1_ChainMatchesLen ==
    Handles =>
        /\ Len(Fwd) = len
        /\ Last(Fwd) = tail
        /\ Fwd # <<>> => heap[Last(Fwd)].next = NoNode
        /\ Bwd = Reverse(Fwd)
        /\ Last(Bwd) = head
        /\ Bwd # <<>> => heap[Last(Bwd)].prev = NoNode

\* C2: for every node A reachable from head, if A.next is a node B then
\* B.prev = A, and if A.prev is a node P then P.next = A.
C2_LinkSymmetry ==
    \A i \in 1..Len(Fwd) :
        LET A == Fwd[i] IN
        /\ heap[A].next # NoNode =>
               /\ Live(heap[A].next)
               /\ heap[heap[A].next].prev = A
        /\ heap[A].prev # NoNode =>
               /\ Live(heap[A].prev)
               /\ heap[heap[A].prev].next = A

\* C2's case: a chain of three nodes built by inserts after a take.
C2_Witness == Len(Fwd) = 3 /\ taken >= 1 /\ mode = "cursor"

\* C3: every insert made on an empty list makes the value the sole element
\* of iter(), insert_after(v) with the cursor on X puts v right after X and
\* insert_before(v) puts v right before X, the other elements keeping their
\* places; so any run of inserts from the empty list yields the order the
\* splice rules give.
C3_InsertSplices ==
    [][\A v \in Values :
        /\ (InsertAfter(v) \/ InsertBefore(v)) /\ Fwd = <<>> =>
               IterSeq' = <<v>>
        /\ InsertAfter(v) /\ node # NoNode =>
               /\ Idx(Fwd, node) > 0
               /\ IterSeq' = InsertAt(IterSeq, Idx(Fwd, node) + 1, v)
        /\ InsertBefore(v) /\ node # NoNode =>
               /\ Idx(Fwd, node) > 0
               /\ IterSeq' = InsertAt(IterSeq, Idx(Fwd, node), v)]_vars

\* C3's case: insert_after(2), insert_before(1), insert_after(3) and nothing
\* else but inserts leaves iter() = [1,2,3] with the cursor still on 2.
C3_Witness ==
    /\ mode = "cursor"
    /\ inserted = 3
    /\ taken = 0
    /\ IterSeq = <<1, 2, 3>>
    /\ node # NoNode
    /\ heap[node].value = 2

\* C4: take() with the cursor on X returns X's value, removes exactly X
\* (the others keep their order; head and tail are the ends of what is
\* left), decrements len by one and moves the cursor to X's former next,
\* else to X's former prev, OffList only when the list is now empty.
C4_TakeRemovesCurrent ==
    [][(Take /\ node # NoNode) =>
        LET i == Idx(Fwd, node)
            n == Len(Fwd)
        IN  /\ i > 0
            /\ ret' = heap[node].value
            /\ Fwd' = RemoveAt(Fwd, i)
            /\ IterSeq' = RemoveAt(IterSeq, i)
            /\ head' = (IF heap[node].prev = NoNode THEN heap[node].next ELSE head)
            /\ tail' = (IF heap[node].next = NoNode THEN heap[node].prev ELSE tail)
            /\ head' = First(Fwd')
            /\ tail' = Last(Fwd')
            /\ len' = len - 1
            /\ node' = (IF i < n THEN Fwd[i + 1] ELSE IF i > 1 THEN Fwd[i - 1] ELSE NoNode)
            /\ node' = (IF heap[node].next # NoNode THEN heap[node].next ELSE heap[node].prev)
            /\ node' = NoNode => Fwd' = <<>>]_vars

\* C4's case: a take() of the last of three elements has just returned, the
\* cursor having fallen back to the former prev, now the tail.
C4_Witness ==
    /\ mode = "cursor"
    /\ taken = 1
    /\ inserted = 3
    /\ ret # NoValue
    /\ Len(Fwd) = 2
    /\ node = tail

\* C5: whenever insert_after or insert_before runs with the cursor OffList,
\* the list is empty.
C5_OffListInsertOnlyWhenEmpty ==
    [][\A v \in Values :
        ((InsertAfter(v) \/ InsertBefore(v)) /\ node = NoNode) =>
            (head = NoNode /\ tail = NoNode /\ len = 0)]_vars

\* C6: head is none iff tail is none iff len = 0.
C6_EmptyAgree ==
    /\ (head = NoNode) <=> (tail = NoNode)
    /\ (head = NoNode) <=> (len = 0)

\* C7: len equals the number of inserts minus the number of takes that
\* returned a value, and navigation, peek_mut and a take() that returns
\* nothing leave len as it is.
C7_LenCountsInsertsAndTakes ==
    /\ [](len = inserted - taken)
    /\ [][(\/ CursorFront \/ CursorBack \/ CursorNext \/ CursorPrev
           \/ PeekMut \/ (Take /\ node = NoNode)) => len' = len]_vars

\* C7's case: three inserts and two successful takes.
C7_Witness == inserted = 3 /\ taken = 2 /\ len = 1 /\ mode = "cursor"

\* C8: the cursor's position is none or a live node, and head, tail and the
\* links of every node reachable from head (and of the cursor's node) point
\* only to live nodes: no operation dereferences or deallocates a node that
\* take() has deallocated.
C8_NoDanglingPointer ==
    /\ LiveOrNone(node)
    /\ LiveOrNone(iterNext)
    /\ LiveOrNone(head)
    /\ LiveOrNone(tail)
    /\ node # NoNode /\ Live(node) =>
           LiveOrNone(heap[node].next) /\ LiveOrNone(heap[node].prev)
    /\ \A i \in 1..Len(Fwd) :
           LiveOrNone(heap[Fwd[i]].next) /\ LiveOrNone(heap[Fwd[i]].prev)

\* C8's case: a take() has deallocated a node in the middle of the list and
\* the cursor stands on a node that is still there.
C8_Witness ==
    /\ mode = "cursor"
    /\ taken >= 1
    /\ ret # NoValue
    /\ Len(Fwd) = 2
    /\ node = tail
    /\ Cardinality(DOMAIN heap) = 2

\* C9: once the list is dropped, every node an insert allocated has been
\* deallocated: none is still live and the takes are as many as the inserts.
C9_DropFreesAll ==
    mode = "dropped" => (DOMAIN heap = {} /\ taken = inserted)

\* next() and prev() repeated k times from position p.
RECURSIVE NextN(_, _)
NextN(p, k) == IF k = 0 THEN p ELSE NextN(NextPos(p), k - 1)

RECURSIVE PrevN(_, _)
PrevN(p, k) == IF k = 0 THEN p ELSE PrevN(PrevPos(p), k - 1)

FairSpec == Spec /\ WF_vars(DropStep)

\* C11: next() with the cursor on X moves it to X.next and returns that
\* node's value, or returns nothing and leaves it OffList when X is the
\* tail; prev() does the same with X.prev and the head.  What is returned
\* is what peek_mut() returns right after the call.
C11_StepOntoNeighbour ==
    [][/\ (CursorNext /\ node # NoNode) =>
            LET i == Idx(Fwd, node) IN
            /\ i > 0
            /\ node' = heap[node].next
            /\ node' = (IF i < Len(Fwd) THEN Fwd[i + 1] ELSE NoNode)
            /\ (node = tail) <=> (node' = NoNode)
            /\ node' = NoNode => ret' = NoValue
            /\ node' # NoNode => ret' = heap[node'].value
            /\ ret' = Peek(heap', node')
       /\ (CursorPrev /\ node # NoNode) =>
            LET i == Idx(Fwd, node) IN
            /\ i > 0
            /\ node' = heap[node].prev
            /\ node' = (IF i > 1 THEN Fwd[i - 1] ELSE NoNode)
            /\ (node = head) <=> (node' = NoNode)
            /\ node' = NoNode => ret' = NoValue
            /\ node' # NoNode => ret' = heap[node'].value
            /\ ret' = Peek(heap', node')]_vars

\* C11's case: a step has moved the cursor onto the middle one of three
\* elements and returned its value, which differs from its neighbours'.
C11_Witness ==
    /\ mode = "cursor"
    /\ Len(Fwd) = 3
    /\ node = Fwd[2]
    /\ ret = heap[node].value
    /\ IterSeq = <<1, 2, 3>>

\* C12: insert_after and insert_before with the cursor on X leave the cursor
\* on X, peek_mut() still returning X's value; the cursor moves only when
\* the insert is made on an empty list, and then onto the new sole node.
C12_InsertKeepsCursor ==
    [][\A v \in Values :
        (InsertAfter(v) \/ InsertBefore(v)) =>
            /\ node # NoNode =>
                   /\ node' = node
                   /\ Peek(heap', node') = Peek(heap, node)
            /\ node' # node =>
                   /\ head = NoNode /\ tail = NoNode /\ len = 0
                   /\ Fwd' = <<node'>>
                   /\ Peek(heap', node') = v]_vars

\* C13: with the cursor OffList, peek_mut() and take() return nothing and
\* leave head, tail, len, every link and value and the cursor as they were.
C13_OffListNoEffect ==
    [][((PeekMut \/ Take) /\ node = NoNode) =>
        /\ ret' = NoValue
        /\ heap' = heap
        /\ head' = head
        /\ tail' = tail
        /\ len' = len
        /\ node' = node]_vars

\* C13's case: the cursor is OffList on a list that still holds two
\* elements after a take, the last call having returned nothing.
C13_Witness ==
    /\ mode = "cursor"
    /\ node = NoNode
    /\ ret = NoValue
    /\ taken >= 1
    /\ Len(Fwd) = 2
    /\ len = 2

\* What take() returns with the cursor at p in heap h, and the len it leaves.
TakeRetAt(h, p) == IF p = NoNode THEN NoValue ELSE h[p].value

TakeLenAt(l, p) == IF p = NoNode THEN l ELSE LenDec(l)

\* C14: after insert_after(v) resp. insert_before(v), a take() made at once
\* with the cursor itself when the insert was on an empty list, otherwise
\* after one next() resp. prev(), returns v and puts len back to what it
\* was before the insert.
C14_InsertTakeRoundTrip ==
    [][\A v \in Values :
        /\ InsertAfter(v) =>
            LET pos == IF is_empty THEN node' ELSE NextPos(node)' IN
            /\ pos = NoNode \/ pos \in DOMAIN heap'
            /\ TakeRetAt(heap', pos) = v
            /\ TakeLenAt(len', pos) = len
        /\ InsertBefore(v) =>
            LET pos == IF is_empty THEN node' ELSE PrevPos(node)' IN
            /\ pos = NoNode \/ pos \in DOMAIN heap'
            /\ TakeRetAt(heap', pos) = v
            /\ TakeLenAt(len', pos) = len]_vars

\* What an iterator yields step by step: from iter() it stands on the first
\* node, each next() yields the value of its node and moves to the chain
\* successor, and past the last node it yields nothing and stays there;
\* no step changes the list.
IterWalksChain ==
    /\ [][IterNew => (iterNext' = First(Fwd) /\ UNCHANGED list)]_vars
    /\ [][IterNext =>
            LET i == Idx(Fwd, iterNext) IN
            /\ iterNext # NoNode =>
                   /\ i > 0
                   /\ ret' = IterSeq[i]
                   /\ iterNext' = (IF i < Len(Fwd) THEN Fwd[i + 1] ELSE NoNode)
            /\ iterNext = NoNode => (ret' = NoValue /\ iterNext' = NoNode)
            /\ UNCHANGED list]_vars

\* C15: an iterator from iter() yields the values of the nodes from head to
\* tail in order, exactly len() of them, then nothing forever, and iterating
\* changes neither head, tail, len nor any link or value.
C15_IterYieldsLenValues ==
    /\ IterWalksChain
    /\ [](mode = "iter" => Len(IterSeq) = len)

\* C16: whenever a cursor (that of the caller or that of drop()) is on a
\* node, len >= 1, so that take()'s len -= 1 stays at or above zero, and the
\* node is live, with live or absent neighbours, so that the pointers
\* insert_after / insert_before and take() dereference are valid.
C16_OnNodeHasLen ==
    (mode \in {"cursor", "drop"} /\ node # NoNode) =>
        /\ len >= 1
        /\ Live(node)
        /\ LiveOrNone(heap[node].next)
        /\ LiveOrNone(heap[node].prev)

\* C16's case: after a take the cursor is on the only node left and len is
\* 1, the least value a further take() can meet.
C16_Witness ==
    /\ mode = "cursor"
    /\ node # NoNode
    /\ taken >= 1
    /\ Len(Fwd) = 1
    /\ len = 1

\* C18: dropping a list terminates; every turn of the loop finds the cursor
\* on the current head and takes exactly that node, so the nodes reachable
\* from head go one by one from front to back, and the loop ends, at the
\* first take() that returns nothing, with head and tail none and the
\* cursor OffList.
C18_DropTerminates ==
    /\ (mode = "drop") ~> (mode = "dropped")
    /\ [](mode = "drop" => node = head)
    /\ [](mode = "dropped" => (head = NoNode /\ tail = NoNode /\ node = NoNode))
    /\ [][(DropStep /\ node # NoNode) =>
            /\ node = First(Fwd)
            /\ ret' = IterSeq[1]
            /\ Fwd' = Tail(Fwd)
            /\ taken' = taken + 1
            /\ mode' = "drop"]_vars
    /\ [][(DropStep /\ node = NoNode) =>
            /\ Fwd = <<>>
            /\ mode' = "dropped"
            /\ UNCHANGED <<list, taken>>]_vars

\* C18's case: the drop of a list of three elements has ended, three takes
\* after three inserts.
C18_Witness ==
    /\ mode = "dropped"
    /\ inserted = 3
    /\ taken = 3
    /\ DOMAIN heap = {}

\* C19: insert_after and insert_before never remove an element: whatever the
\* cursor's state, iter() after the insert yields what it yielded before
\* with the one new value added at some place.
C19_InsertOnlyAdds ==
    [][\A v \in Values :
        (InsertAfter(v) \/ InsertBefore(v)) =>
            \E i \in 1..(Len(IterSeq) + 1) :
                IterSeq' = InsertAt(IterSeq, i, v)]_vars

\* C20: in the state a next() leaves, prev() leads back to the position the
\* cursor had before the next(), and in the state a prev() leaves, next()
\* leads back likewise (from the tail through OffList, from OffList through
\* the head); neither call changes head, tail, len or any link or value.
C20_NextPrevInverse ==
    [][/\ CursorNext => (PrevPos(node)' = node /\ UNCHANGED list)
       /\ CursorPrev => (NextPos(node)' = node /\ UNCHANGED list)]_vars

\* C20's case: on a list of two elements with nothing taken, a step has put
\* the cursor on the tail and returned its value; one more next() is the
\* walk through OffList.
C20_Witness ==
    /\ mode = "cursor"
    /\ inserted = 2
    /\ taken = 0
    /\ IterSeq = <<1, 2>>
    /\ node = tail
    /\ ret = 2

=============================================================================
